---- MODULE Spec2Model ----
(***************************************************************************)
(* Model of LspController (packages/core/src/amazonq/lsp/lspController.ts) *)
(* as a state machine.  JavaScript runs handlers to their next await, so   *)
(* each action below is one synchronous run of a handler: from a call or   *)
(* from the settlement of the promise it awaits up to the next await or    *)
(* the return.                                                             *)
(*                                                                         *)
(* Optional values (undefined in the source) are sequences of length 0 or  *)
(* 1: None is undefined, Some(v) is v.  Strings that the code compares or  *)
(* takes apart (paths) are sequences of UTF-16 code units.                 *)
(***************************************************************************)
EXTENDS Integers, Sequences, FiniteSets, TLC

None == <<>>
Some(v) == <<v>>
IsDefined(o) == o # <<>>

\* ---------------------------------------------------------------- bounds

\* buildIndex invocations made by callers other than trySetupLsp's task
MaxCallers == 1

\* chunks in one answer of LspClient.queryVectorIndex, where the answers
\* are enumerated
MaxChunks == 2

\* responses the CloudFormation service gives to one listing before it
\* runs out of pages
MaxPages == 3

\* ------------------------------------------------------------- constants

MiB == 1048576

\* -------------------------------------------------------------- universe

\* "/a", "/b" as UTF-16 code units
PathA == <<47, 97>>
PathB == <<47, 98>>

\* vscode.workspace.workspaceFolders (their uri.fsPath), in the order the
\* host lists them
WorkspaceChoices == {<<>>, <<PathB, PathA>>, <<PathA, PathB>>}

\* what collectFilesForIndex may resolve to
File1 == [fsPath |-> <<47, 97, 47, 120>>, fileSizeBytes |-> MiB]
File2 == [fsPath |-> <<47, 98, 47, 121>>, fileSizeBytes |-> 2 * MiB]
CollectChoices == {<<>>, <<File1, File2>>}

\* values a rejected promise may carry: an Error instance or anything else
ErrorObject == [isError |-> TRUE, name |-> "Error", message |-> "boom"]
NonErrorValue == [isError |-> FALSE, name |-> "", message |-> "boom"]
ThrownValues == {ErrorObject, NonErrorValue}

\* LspClient.getLspServerUsage(): a sample, or undefined
UsageSample == [cpuUsage |-> 5, memoryUsage |-> 3 * MiB]
UsageChoices == {None, Some(UsageSample)}

\* BuildIndexConfig
BuildIndexConfigs ==
    {[startUrl |-> None, maxIndexSize |-> 2048, isVectorIndexEnabled |-> FALSE],
     [startUrl |-> Some("url"), maxIndexSize |-> 2048, isVectorIndexEnabled |-> TRUE]}

\* "/x/y.py"
PathXY == <<47, 120, 47, 121, 46, 112, 121>>
\* "rel/y.py"
PathRel == <<114, 101, 108, 47, 121, 46, 112, 121>>

\* Chunk values LspClient.queryVectorIndex may return
Chunks ==
    [filePath : {PathXY},
     content : {"RAW"},
     context : {None, Some(""), Some("CTX")},
     relativePath : {None, Some(<<>>), Some(PathRel)},
     programmingLanguage : {None, Some(""), Some("unknown"), Some("python")}]

\* the answers of up to MaxChunks chunks
ChunkSequences == UNION {[1 .. n -> Chunks] : n \in 0 .. MaxChunks}

PlainChunk ==
    [filePath |-> PathXY, content |-> "RAW", context |-> None,
     relativePath |-> None, programmingLanguage |-> Some("unknown")]

\* what LspClient.queryVectorIndex resolves to while the controller's
\* life cycle is followed: undefined, no chunk, one chunk
QueryResponses == {None, Some(<<>>), Some(<<PlainChunk>>)}

\* what LspClient.queryInlineProjectContext resolves to
InlineResults == {<<>>, <<"r1">>, <<"r1", "r2">>}

\* the manifest's entries: a dependency's name and the platform/architecture
\* it is for
ManifestEntries == [name : {"qserver", "node"}, platform : {"current", "other"}]
Manifests == SUBSET ManifestEntries

\* CloudFormation.ListStacksOutput: StackSummaries is undefined or a list of
\* summaries, NextToken is undefined or a token (the service's tokens are
\* never empty strings)
StackTokens == {"t1", "t2"}
SummaryChoices == {None, Some(<<>>), Some(<<"s1">>), Some(<<"s1", "s2">>)}
ListStacksOutputs ==
    [StackSummaries : SummaryChoices,
     NextToken : {None} \cup {Some(t) : t \in StackTokens}]

\* slot 0 is the invocation made by trySetupLsp's task, the others are
\* invocations by other callers of the controller
SetupInvocation == 0
Invocations == 0 .. MaxCallers
Callers == 1 .. MaxCallers

\* ------------------------------------------------------- pure functions

\* a < b for strings, as Array.prototype.sort compares them without a
\* comparator: by UTF-16 code units, a proper prefix first
RECURSIVE StrLess(_, _)
StrLess(a, b) ==
    IF b = <<>> THEN FALSE
    ELSE IF a = <<>> THEN TRUE
    ELSE IF Head(a) # Head(b) THEN Head(a) < Head(b)
    ELSE StrLess(Tail(a), Tail(b))

RECURSIVE Insert(_, _)
Insert(x, s) ==
    IF s = <<>> THEN <<x>>
    ELSE IF StrLess(x, Head(s)) THEN <<x>> \o s
    ELSE <<Head(s)>> \o Insert(x, Tail(s))

\* (a sort that leaves the folders in the order the host lists them)
SortPathsAsListed(s) == s

\* projPaths.sort()
RECURSIVE SortPaths(_)
SortPaths(s) == IF s = <<>> THEN <<>> ELSE Insert(Head(s), SortPaths(Tail(s)))

\* files.reduce((acc, f) => acc + f.fileSizeBytes, 0)
RECURSIVE TotalSizeBytes(_)
TotalSizeBytes(files) ==
    IF files = <<>> THEN 0
    ELSE Head(files).fileSizeBytes + TotalSizeBytes(Tail(files))

\* (a map that passes on the first file only)
FilePathsFirstOnly(files) ==
    IF files = <<>> THEN <<>> ELSE <<files[1].fsPath>>

\* files.map((f) => f.fileUri.fsPath)
FilePaths(files) == [k \in 1 .. Len(files) |-> files[k].fsPath]

\* buildIndexConfig.isVectorIndexEnabled ? 'all' : 'default'
IndexMode(config) == IF config.isVectorIndexEnabled THEN "all" ELSE "default"

\* the amazonq_indexWorkspace event of the success branch
SucceededEvent(files, usage, config) ==
    [result |-> "Succeeded",
     amazonqIndexFileCount |-> Len(files),
     amazonqIndexMemoryUsageInMB |->
         IF IsDefined(usage) THEN Some(usage[1].memoryUsage \div MiB) ELSE None,
     amazonqIndexCpuUsagePercentage |->
         IF IsDefined(usage) THEN Some(usage[1].cpuUsage) ELSE None,
     amazonqIndexFileSizeInMB |-> TotalSizeBytes(files) \div MiB,
     credentialStartUrl |-> config.startUrl,
     reason |-> None,
     reasonDesc |-> None]

\* the event of the branch taken when the child build call resolves to false
BuildFalseEvent ==
    [result |-> "Failed",
     amazonqIndexFileCount |-> 0,
     amazonqIndexMemoryUsageInMB |-> None,
     amazonqIndexCpuUsagePercentage |-> None,
     amazonqIndexFileSizeInMB |-> 0,
     credentialStartUrl |-> None,
     reason |-> Some("Unknown"),
     reasonDesc |-> None]

\* the event of the catch block
CaughtEvent(error) ==
    [result |-> "Failed",
     amazonqIndexFileCount |-> 0,
     amazonqIndexMemoryUsageInMB |-> None,
     amazonqIndexCpuUsagePercentage |-> None,
     amazonqIndexFileSizeInMB |-> 0,
     credentialStartUrl |-> None,
     reason |-> Some(IF error.isError THEN error.name ELSE "Unknown"),
     reasonDesc |-> Some(<<"Error when building index. ", error.message>>)]

\* an optional string in a condition: undefined and "" are falsy
Truthy(o) == IsDefined(o) /\ o[1] # ""

\* the same for a string kept as code units
TruthyPath(o) == IsDefined(o) /\ o[1] # <<>>

RECURSIVE StripTrailingSlashes(_)
StripTrailingSlashes(p) ==
    IF p # <<>> /\ p[Len(p)] = 47
    THEN StripTrailingSlashes(SubSeq(p, 1, Len(p) - 1))
    ELSE p

RECURSIVE LastSegment(_)
LastSegment(p) ==
    IF p = <<>> \/ p[Len(p)] = 47 THEN <<>>
    ELSE Append(LastSegment(SubSeq(p, 1, Len(p) - 1)), p[Len(p)])

\* path.basename (posix): the part after the last separator, trailing
\* separators dropped
Basename(p) == LastSegment(StripTrailingSlashes(p))

\* (a normalisation that takes the raw content even when there is a context)
NormalizedRecordContentFirst(chunk) ==
    LET relativeFilePath ==
            IF TruthyPath(chunk.relativePath)
            THEN chunk.relativePath[1]
            ELSE Basename(chunk.filePath)
    IN  IF Truthy(chunk.programmingLanguage) /\ chunk.programmingLanguage[1] # "unknown"
        THEN [text |-> chunk.content,
              relativeFilePath |-> relativeFilePath,
              programmingLanguage |-> Some([languageName |-> chunk.programmingLanguage[1]])]
        ELSE [text |-> chunk.content,
              relativeFilePath |-> relativeFilePath,
              programmingLanguage |-> None]

\* the record query pushes for one chunk
NormalizedRecord(chunk) ==
    LET text == IF Truthy(chunk.context) THEN chunk.context[1] ELSE chunk.content
        relativeFilePath ==
            IF TruthyPath(chunk.relativePath)
            THEN chunk.relativePath[1]
            ELSE Basename(chunk.filePath)
    IN  IF Truthy(chunk.programmingLanguage) /\ chunk.programmingLanguage[1] # "unknown"
        THEN [text |-> text,
              relativeFilePath |-> relativeFilePath,
              programmingLanguage |-> Some([languageName |-> chunk.programmingLanguage[1]])]
        ELSE [text |-> text,
              relativeFilePath |-> relativeFilePath,
              programmingLanguage |-> None]

\* chunks?.forEach(...): nothing is pushed for undefined
QueryResult(chunks) ==
    IF IsDefined(chunks)
    THEN [k \in 1 .. Len(chunks[1]) |-> NormalizedRecord(chunks[1][k])]
    ELSE <<>>

\* ----------------------------------------------------------------- state

VARIABLES
    \* LspController
    _isIndexingInProgress,  \* the private field
    workspaceFolders,       \* vscode.workspace.workspaceFolders
    \* buildIndex invocations
    bpc,        \* where each invocation stands
    bconfig,    \* its buildIndexConfig, while the try block runs
    bfiles,     \* const files: what the collector resolved to, in the try block
    bcall,      \* the arguments of its pending LspClient.buildIndex call
    bevents,    \* the amazonq_indexWorkspace events it emitted
    \* trySetupLsp
    isCloud9, isWeb, isAmazonInternalOs,
    setupPc,    \* where the call and its deferred task stand
    setupConfig,\* the buildIndexConfig the call was given
    setupTrace, \* the steps of the task, in the order they happened
    timerArmed, \* globals.clock.setInterval has been called
    pollPc,     \* the interval callback: idle, or awaiting getLspServerUsage
    lastPoll,   \* how the callback's latest run ended (none while it runs)
    \* query
    qpc,        \* where the call stands
    qNotReady,  \* the controller was not Ready when the call was made
    qChild,     \* the child process was there when the client was called
    qresponse,  \* how LspClient.queryVectorIndex settled (None before)
    qresult,    \* what query resolved to
    \* queryInlineProjectContext
    ipc,        \* where the call stands
    iChild,     \* the child process was there when the client was called
    iresponse,  \* how LspClient.queryInlineProjectContext settled
    iresult,    \* what the call resolved to (None: undefined)
    ilog,       \* the messages it logged at error level
    \* the installation on disk, and install / cleanup / isLspInstalled
    fsServer,   \* fs.exists(this.serverPath)
    fsNode,     \* fs.exists(this.nodePath)
    fsTemp,     \* a folder made by makeTemporaryToolkitFolder exists
    opPc,       \* where the operation in hand stands
    opName,     \* the operation in hand, or the last one
    opManifest, \* install's manifest
    tempFolder, \* install's let tempFolder is defined
    opPending,  \* how install settles once its finally block is through
    opResult,   \* how the operation settled
    opEffects,  \* what the operation has done to the disk so far
    fsBefore,   \* the disk when the operation was called
    prevOp,     \* the operation before this one,
    prevResult, \*   how it settled
    prevBefore, \*   and the disk when it was called
    \* DefaultCloudFormationClient.listStacks, one iteration of the generator
    lsPc,       \* where the generator stands
    lsToken,    \* request.NextToken
    lsRequests, \* the NextToken of each client.listStacks(request) made
    lsResponses,\* the responses received, in order
    lsPending,  \* the summaries of the page in hand that yield* has yet to give
    lsYielded   \* the summaries the consumer was given, in order

ctlVars == <<_isIndexingInProgress, workspaceFolders, bpc, bconfig, bfiles, bcall, bevents>>
envVars == <<isCloud9, isWeb, isAmazonInternalOs>>
setupVars == <<setupPc, setupConfig, setupTrace, timerArmed>>
pollVars == <<pollPc, lastPoll>>
controllerVars == <<ctlVars, envVars, setupVars, pollVars>>
queryVars == <<qpc, qNotReady, qChild, qresponse, qresult>>
inlineVars == <<ipc, iChild, iresponse, iresult, ilog>>
fsVars == <<fsServer, fsNode, fsTemp>>
opVars == <<opPc, opName, opManifest, tempFolder, opPending, opResult, opEffects,
            fsBefore, prevOp, prevResult, prevBefore>>
installVars == <<fsVars, opVars>>
stackVars == <<lsPc, lsToken, lsRequests, lsResponses, lsPending, lsYielded>>
extraVars == <<installVars, stackVars>>
outsideController == <<queryVars, inlineVars, extraVars>>
vars == <<controllerVars, queryVars, inlineVars, extraVars>>


TypeOK ==
    /\ _isIndexingInProgress \in BOOLEAN
    /\ workspaceFolders \in WorkspaceChoices
    /\ bpc \in [Invocations ->
                 {"idle", "collecting", "building", "usage", "snapshot", "resolved", "rejected"}]
    /\ \A i \in Invocations : Len(bevents[i]) <= 1
    /\ setupPc \in {"notCalled", "skipped", "scheduled", "installing", "activating", "returned"}
    /\ timerArmed \in BOOLEAN
    /\ pollPc \in {"idle", "awaiting"}
    /\ lastPoll \in {"none", "logged", "nothingLogged", "rejected"}
    /\ qpc \in {"idle", "awaiting", "resolved", "rejected"}
    /\ ipc \in {"idle", "awaiting", "returned"}
    /\ fsServer \in BOOLEAN /\ fsNode \in BOOLEAN /\ fsTemp \in BOOLEAN
    /\ opPc \in {"idle", "makeTemp", "download", "runtime", "removeTemp",
                 "cleanServer", "cleanNode", "settled"}
    /\ opResult \in {"none", "true", "false", "threw"}
    /\ lsPc \in {"idle", "client", "request", "yield", "done", "threw"}
    /\ Len(lsRequests) <= MaxPages

\* ------------------------------------------------------------- LspClient

InTrace(step) == \E k \in 1 .. Len(setupTrace) : setupTrace[k] = step

\* the position of a step in the trace, 0 when it has not happened
Pos(step) ==
    IF InTrace(step)
    THEN CHOOSE k \in 1 .. Len(setupTrace) : setupTrace[k] = step
    ELSE 0

\* activateLsp(context) has resolved
Activated == InTrace("activate_end")

\* LspClient is a facade over the child process that activation starts.
\* Without a child process a call has nobody to answer it or to fail it in
\* transport, and resolves to undefined.
ChildAlive == Activated

\* LspClient.buildIndex: the success flag (undefined is falsy)
BuildResponses == IF ChildAlive THEN BOOLEAN ELSE {FALSE}

\* LspClient.queryVectorIndex: undefined, or a sequence of chunks
VectorResponses(child) == IF child THEN QueryResponses ELSE {None}

\* LspClient.queryInlineProjectContext: undefined, or a sequence of results
InlineResponses(child) == IF child THEN {Some(r) : r \in InlineResults} ELSE {None}

\* ------------------------------------------------------------ buildIndex

\* (a finally block that clears the flag only when nothing was thrown)
FinallyFlagKeptOnThrow(threw) == IF threw THEN _isIndexingInProgress ELSE FALSE

\* the value the finally block leaves in the flag; threw: the try block
\* was left by a throw
FinallyFlag(threw) == FALSE

\* the finally block up to its await: the try block and its constants are
\* left, the flag is cleared and LspClient.getRepoMapJSON() is called
Finally(i, threw) ==
    /\ _isIndexingInProgress' = FinallyFlag(threw)
    /\ bpc' = [bpc EXCEPT ![i] = "snapshot"]
    /\ bconfig' = [bconfig EXCEPT ![i] = None]
    /\ bfiles' = [bfiles EXCEPT ![i] = None]
    /\ bcall' = [bcall EXCEPT ![i] = None]

\* (a catch block that emits nothing)
CatchAndFinallySilent(i, error) ==
    /\ UNCHANGED bevents
    /\ Finally(i, TRUE)

\* the catch block, then the finally block
CatchAndFinally(i, error) ==
    /\ bevents' = [bevents EXCEPT ![i] = Append(@, CaughtEvent(error))]
    /\ Finally(i, TRUE)

\* (a buildIndex that sets the flag before it looks at the workspace)
BuildIndexCallFlagFirst(i, config) ==
    /\ bpc[i] = "idle"
    /\ _isIndexingInProgress' = TRUE
    /\ IF Len(workspaceFolders) = 0
       THEN /\ bpc' = [bpc EXCEPT ![i] = "resolved"]
            /\ UNCHANGED bconfig
       ELSE /\ bpc' = [bpc EXCEPT ![i] = "collecting"]
            /\ bconfig' = [bconfig EXCEPT ![i] = Some(config)]
    /\ UNCHANGED <<workspaceFolders, bfiles, bcall, bevents>>

\* buildIndex(config) from its call to its first await (or its return when
\* the workspace has no folders); the effect on the controller's variables
BuildIndexCall(i, config) ==
    /\ bpc[i] = "idle"
    /\ IF Len(workspaceFolders) = 0
       THEN /\ bpc' = [bpc EXCEPT ![i] = "resolved"]
            /\ UNCHANGED <<_isIndexingInProgress, bconfig>>
       ELSE /\ _isIndexingInProgress' = TRUE
            /\ bpc' = [bpc EXCEPT ![i] = "collecting"]
            /\ bconfig' = [bconfig EXCEPT ![i] = Some(config)]
    /\ UNCHANGED <<workspaceFolders, bfiles, bcall, bevents>>

\* a caller other than trySetupLsp invokes buildIndex
BuildIndex(i) ==
    /\ i \in Callers
    /\ \E config \in BuildIndexConfigs : BuildIndexCall(i, config)
    /\ UNCHANGED <<envVars, setupVars, pollVars>>
    /\ UNCHANGED outsideController

\* the first build's end is a step of trySetupLsp's task
TraceBuildEnd(i) ==
    setupTrace' = IF i = SetupInvocation THEN Append(setupTrace, "build_end") ELSE setupTrace

\* collectFilesForIndex resolves: sizes are summed, the paths mapped and
\* LspClient.buildIndex(r, projRoot, config) is called
CollectResolve(i) ==
    /\ bpc[i] = "collecting"
    /\ \E files \in CollectChoices :
        /\ bfiles' = [bfiles EXCEPT ![i] = Some(files)]
        /\ bcall' = [bcall EXCEPT ![i] =
                        Some([filePaths |-> FilePaths(files),
                              projRoot |-> SortPaths(workspaceFolders)[1],
                              config |-> IndexMode(bconfig[i][1])])]
    /\ bpc' = [bpc EXCEPT ![i] = "building"]
    /\ UNCHANGED <<_isIndexingInProgress, workspaceFolders, bconfig, bevents>>
    /\ UNCHANGED <<envVars, setupVars, pollVars>>
    /\ UNCHANGED outsideController

\* collectFilesForIndex rejects
CollectReject(i) ==
    /\ bpc[i] = "collecting"
    /\ \E error \in ThrownValues : CatchAndFinally(i, error)
    /\ UNCHANGED workspaceFolders
    /\ UNCHANGED <<envVars, setupVars, pollVars>>
    /\ UNCHANGED outsideController

\* LspClient.buildIndex resolves: true goes on to getLspServerUsage(),
\* false emits the Failed event and runs the finally block
BuildResolve(i) ==
    /\ bpc[i] = "building"
    /\ \E resp \in BuildResponses :
        IF resp
        THEN /\ bpc' = [bpc EXCEPT ![i] = "usage"]
             /\ bcall' = [bcall EXCEPT ![i] = None]
             /\ UNCHANGED <<_isIndexingInProgress, bconfig, bfiles, bevents>>
        ELSE /\ bevents' = [bevents EXCEPT ![i] = Append(@, BuildFalseEvent)]
             /\ Finally(i, FALSE)
    /\ UNCHANGED workspaceFolders
    /\ UNCHANGED <<envVars, setupVars, pollVars>>
    /\ UNCHANGED outsideController

\* LspClient.buildIndex rejects
BuildReject(i) ==
    /\ bpc[i] = "building"
    /\ ChildAlive
    /\ \E error \in ThrownValues : CatchAndFinally(i, error)
    /\ UNCHANGED workspaceFolders
    /\ UNCHANGED <<envVars, setupVars, pollVars>>
    /\ UNCHANGED outsideController

\* getLspServerUsage resolves: the Succeeded event, then the finally block
UsageResolve(i) ==
    /\ bpc[i] = "usage"
    /\ \E usage \in UsageChoices :
        bevents' = [bevents EXCEPT ![i] =
                       Append(@, SucceededEvent(bfiles[i][1], usage, bconfig[i][1]))]
    /\ Finally(i, FALSE)
    /\ UNCHANGED workspaceFolders
    /\ UNCHANGED <<envVars, setupVars, pollVars>>
    /\ UNCHANGED outsideController

\* getLspServerUsage rejects
UsageReject(i) ==
    /\ bpc[i] = "usage"
    /\ ChildAlive
    /\ \E error \in ThrownValues : CatchAndFinally(i, error)
    /\ UNCHANGED workspaceFolders
    /\ UNCHANGED <<envVars, setupVars, pollVars>>
    /\ UNCHANGED outsideController

\* getRepoMapJSON resolves: the path is logged and buildIndex resolves
SnapshotResolve(i) ==
    /\ bpc[i] = "snapshot"
    /\ bpc' = [bpc EXCEPT ![i] = "resolved"]
    /\ TraceBuildEnd(i)
    /\ UNCHANGED <<_isIndexingInProgress, workspaceFolders, bconfig, bfiles, bcall, bevents>>
    /\ UNCHANGED <<envVars, setupPc, setupConfig, timerArmed, pollVars>>
    /\ UNCHANGED outsideController

\* getRepoMapJSON rejects: the await sits in the finally block, outside any
\* try, so the rejection is the rejection of buildIndex's promise
SnapshotReject(i) ==
    /\ bpc[i] = "snapshot"
    /\ ChildAlive
    /\ bpc' = [bpc EXCEPT ![i] = "rejected"]
    /\ TraceBuildEnd(i)
    /\ UNCHANGED <<_isIndexingInProgress, workspaceFolders, bconfig, bfiles, bcall, bevents>>
    /\ UNCHANGED <<envVars, setupPc, setupConfig, timerArmed, pollVars>>
    /\ UNCHANGED outsideController

\* the caller has seen its promise settle; the slot is free for the
\* caller's next invocation
BuildIndexSettled(i) ==
    /\ i \in Callers
    /\ bpc[i] \in {"resolved", "rejected"}
    /\ bpc' = [bpc EXCEPT ![i] = "idle"]
    /\ bevents' = [bevents EXCEPT ![i] = <<>>]
    /\ UNCHANGED <<_isIndexingInProgress, workspaceFolders, bconfig, bfiles, bcall>>
    /\ UNCHANGED <<envVars, setupVars, pollVars>>
    /\ UNCHANGED outsideController

\* ----------------------------------------------------------- trySetupLsp

\* (a gate that lets the Amazon internal OS through)
IncompatibleWithoutInternalOs == isCloud9 \/ isWeb

\* isCloud9() || isWeb() || isAmazonInternalOs()
Incompatible == isCloud9 \/ isWeb \/ isAmazonInternalOs

\* (a trySetupLsp that starts the installation itself, before it returns)
TrySetupLspInstallsFirst ==
    /\ setupPc = "notCalled"
    /\ \E config \in BuildIndexConfigs : setupConfig' = Some(config)
    /\ setupPc' = IF Incompatible THEN "skipped" ELSE "installing"
    /\ setupTrace' = IF Incompatible
                     THEN Append(setupTrace, "returned")
                     ELSE setupTrace \o <<"install_begin", "returned">>
    /\ UNCHANGED <<ctlVars, envVars, timerArmed, pollVars>>
    /\ UNCHANGED outsideController

\* trySetupLsp(context, buildIndexConfig): returns at once, on a compatible
\* host after handing its task to setImmediate
TrySetupLsp ==
    /\ setupPc = "notCalled"
    /\ \E config \in BuildIndexConfigs : setupConfig' = Some(config)
    /\ setupPc' = IF Incompatible THEN "skipped" ELSE "scheduled"
    /\ setupTrace' = Append(setupTrace, "returned")
    /\ UNCHANGED <<ctlVars, envVars, timerArmed, pollVars>>
    /\ UNCHANGED outsideController

\* the deferred task starts: LspController.instance.tryInstallLsp() is called
SetupTaskRun ==
    /\ setupPc = "scheduled"
    /\ setupPc' = "installing"
    /\ setupTrace' = Append(setupTrace, "install_begin")
    /\ UNCHANGED <<ctlVars, envVars, setupConfig, timerArmed, pollVars>>
    /\ UNCHANGED outsideController

\* tryInstallLsp resolves: false ends the task, true calls activateLsp
TryInstallResolve ==
    /\ setupPc = "installing"
    /\ \E ok \in BOOLEAN :
        IF ok
        THEN /\ setupPc' = "activating"
             /\ setupTrace' = setupTrace \o <<"install_end", "activate_begin">>
        ELSE /\ setupPc' = "returned"
             /\ setupTrace' = setupTrace \o <<"install_failed">>
    /\ UNCHANGED <<ctlVars, envVars, setupConfig, timerArmed, pollVars>>
    /\ UNCHANGED outsideController

\* (a task that arms the timer and only then invokes the first build)
StepsAfterActivationTimerFirst(buildReturned) ==
    <<"activate_end", "timer_armed", "build_begin">>
        \o (IF buildReturned THEN <<"build_end">> ELSE <<>>)

\* the steps of the task once activateLsp has resolved, in the order of the
\* statements: buildIndex is invoked and not awaited (it runs to its first
\* await, or to its return when there are no folders), then setInterval
StepsAfterActivation(buildReturned) ==
    <<"activate_end", "build_begin">>
        \o (IF buildReturned THEN <<"build_end">> ELSE <<>>)
        \o <<"timer_armed">>

\* activateLsp resolves: the first build is invoked, the timer is armed
ActivateResolve ==
    /\ setupPc = "activating"
    /\ BuildIndexCall(SetupInvocation, setupConfig[1])
    /\ setupTrace' = setupTrace \o StepsAfterActivation(Len(workspaceFolders) = 0)
    /\ timerArmed' = TRUE
    /\ setupPc' = "returned"
    /\ UNCHANGED <<envVars, setupConfig, pollVars>>
    /\ UNCHANGED outsideController

\* (a task that arms the timer even when activation failed)
ActivateRejectArmsTimer ==
    /\ setupPc = "activating"
    /\ \E error \in ThrownValues :
        setupTrace' = setupTrace \o <<"activate_failed", "logged", "timer_armed">>
    /\ timerArmed' = TRUE
    /\ setupPc' = "returned"
    /\ UNCHANGED <<ctlVars, envVars, setupConfig, pollVars>>
    /\ UNCHANGED outsideController

\* activateLsp rejects: the catch block logs it
ActivateReject ==
    /\ setupPc = "activating"
    /\ \E error \in ThrownValues :
        setupTrace' = setupTrace \o <<"activate_failed", "logged">>
    /\ setupPc' = "returned"
    /\ UNCHANGED <<ctlVars, envVars, setupConfig, timerArmed, pollVars>>
    /\ UNCHANGED outsideController

\* ------------------------------------------------------- usage monitor

\* the interval elapses: the callback calls getLspServerUsage()
TimerTick ==
    /\ timerArmed
    /\ pollPc = "idle"
    /\ pollPc' = "awaiting"
    /\ lastPoll' = "none"
    /\ UNCHANGED <<ctlVars, envVars, setupVars>>
    /\ UNCHANGED outsideController

\* getLspServerUsage resolves: a sample is logged, undefined is not, and
\* the callback's promise resolves
PollResolve ==
    /\ pollPc = "awaiting"
    /\ \E usage \in UsageChoices :
        lastPoll' = IF IsDefined(usage) THEN "logged" ELSE "nothingLogged"
    /\ pollPc' = "idle"
    /\ UNCHANGED <<ctlVars, envVars, setupVars>>
    /\ UNCHANGED outsideController

\* getLspServerUsage rejects: the callback has no try, its promise rejects
PollReject ==
    /\ pollPc = "awaiting"
    /\ \E error \in ThrownValues : lastPoll' = "rejected"
    /\ pollPc' = "idle"
    /\ UNCHANGED <<ctlVars, envVars, setupVars>>
    /\ UNCHANGED outsideController

\* ----------------------------------------------------------------- query

\* the controller has not reached Ready: nothing is activated yet, or an
\* index build is in progress
NotReady == ~Activated \/ _isIndexingInProgress

\* query(s) up to its await: LspClient.instance.queryVectorIndex(s) is called
Query ==
    /\ qpc = "idle"
    /\ qpc' = "awaiting"
    /\ qNotReady' = NotReady
    /\ qChild' = ChildAlive
    /\ qresponse' = None
    /\ qresult' = <<>>
    /\ UNCHANGED <<controllerVars, inlineVars, extraVars>>

\* queryVectorIndex resolves: the chunks are normalized and returned
QueryClientResolve ==
    /\ qpc = "awaiting"
    /\ \E chunks \in VectorResponses(qChild) :
        /\ qresponse' = Some([settled |-> "resolved", chunks |-> chunks])
        /\ qresult' = QueryResult(chunks)
    /\ qpc' = "resolved"
    /\ UNCHANGED <<qNotReady, qChild, controllerVars, inlineVars, extraVars>>

\* queryVectorIndex resolves to any answer of up to MaxChunks chunks
QueryClientResolveChunks ==
    /\ qpc = "awaiting"
    /\ qChild
    /\ \E chunks \in ChunkSequences :
        /\ qresponse' = Some([settled |-> "resolved", chunks |-> Some(chunks)])
        /\ qresult' = QueryResult(Some(chunks))
    /\ qpc' = "resolved"
    /\ UNCHANGED <<qNotReady, qChild, controllerVars, inlineVars, extraVars>>

\* queryVectorIndex rejects: the await is in no try block, query rejects
QueryClientReject ==
    /\ qpc = "awaiting"
    /\ qChild
    /\ \E error \in ThrownValues :
        qresponse' = Some([settled |-> "rejected", chunks |-> None])
    /\ qpc' = "rejected"
    /\ UNCHANGED <<qNotReady, qChild, qresult, controllerVars, inlineVars, extraVars>>

\* the caller has seen the promise settle and may call again
QuerySettled ==
    /\ qpc \in {"resolved", "rejected"}
    /\ qpc' = "idle"
    /\ qNotReady' = FALSE
    /\ qChild' = FALSE
    /\ qresponse' = None
    /\ qresult' = <<>>
    /\ UNCHANGED <<controllerVars, inlineVars, extraVars>>

\* --------------------------------------------- queryInlineProjectContext

\* the call up to its await, for every target alike
QueryInlineProjectContext ==
    /\ ipc = "idle"
    /\ \E target \in {"bm25", "codemap", "default"} : ipc' = "awaiting"
    /\ iChild' = ChildAlive
    /\ iresponse' = None
    /\ iresult' = None
    /\ ilog' = <<>>
    /\ UNCHANGED <<controllerVars, queryVars, extraVars>>

\* the client call resolves: its value is returned
InlineClientResolve ==
    /\ ipc = "awaiting"
    /\ \E r \in InlineResponses(iChild) :
        /\ iresponse' = Some([settled |-> "resolved", value |-> r, error |-> None])
        /\ iresult' = r
    /\ ipc' = "returned"
    /\ UNCHANGED <<iChild, ilog, controllerVars, queryVars, extraVars>>

\* (a catch block that logs whatever was thrown)
InlineCatchLogLogsAll(error) == <<error.message>>

\* what the catch block logs: e.message when e is an Error, else nothing
InlineCatchLog(error) == IF error.isError THEN <<error.message>> ELSE <<>>

\* the client call rejects: the catch block logs and returns []
InlineClientReject ==
    /\ ipc = "awaiting"
    /\ iChild
    /\ \E error \in ThrownValues :
        /\ iresponse' = Some([settled |-> "rejected", value |-> None, error |-> Some(error)])
        /\ ilog' = ilog \o InlineCatchLog(error)
    /\ iresult' = Some(<<>>)
    /\ ipc' = "returned"
    /\ UNCHANGED <<iChild, controllerVars, queryVars, extraVars>>

\* the caller has the value and may call again
InlineSettled ==
    /\ ipc = "returned"
    /\ ipc' = "idle"
    /\ iChild' = FALSE
    /\ iresponse' = None
    /\ iresult' = None
    /\ ilog' = <<>>
    /\ UNCHANGED <<controllerVars, queryVars, extraVars>>

\* ------------------------------------- install, cleanup, isLspInstalled

\* LspDownloader.getDependency(manifest, name): the entry of that name for
\* process.platform and process.arch, or undefined; reads only
GetDependency(manifest, name) ==
    LET found == {e \in manifest : e.name = name /\ e.platform = "current"}
    IN  IF found = {} THEN None ELSE Some(CHOOSE e \in found : TRUE)

Disk == <<fsServer, fsNode, fsTemp>>

\* an operation is called when the one before it has settled
OpCall(name) ==
    /\ opPc \in {"idle", "settled"}
    /\ opName' = name
    /\ opEffects' = {}
    /\ fsBefore' = Disk
    /\ prevOp' = opName
    /\ prevResult' = opResult
    /\ prevBefore' = fsBefore

\* (an install that makes its temporary folder before looking at the manifest)
InstallNoDependencyTempFirst ==
    /\ opPc' = "settled"
    /\ opResult' = "false"
    /\ fsTemp' = TRUE

\* install's early return: nothing has been touched
InstallNoDependency ==
    /\ opPc' = "settled"
    /\ opResult' = "false"
    /\ UNCHANGED fsTemp

\* install(manifest) up to its first await, or to its early return
Install ==
    /\ OpCall("install")
    /\ \E manifest \in Manifests :
        /\ opManifest' = Some(manifest)
        /\ LET server == GetDependency(manifest, "qserver")
               runtime == GetDependency(manifest, "node")
           IN  IF ~IsDefined(server) \/ ~IsDefined(runtime)
               THEN InstallNoDependency
               ELSE /\ opPc' = "makeTemp"
                    /\ opResult' = "none"
                    /\ UNCHANGED fsTemp
    /\ tempFolder' = FALSE
    /\ opPending' = "none"
    /\ UNCHANGED <<fsServer, fsNode>>
    /\ UNCHANGED <<controllerVars, queryVars, inlineVars, stackVars>>

\* (a finally block that is skipped when the try block threw)
InstallFinallyOnlyOnSuccess(pending) ==
    IF tempFolder' /\ pending = "true"
    THEN /\ opPc' = "removeTemp"
         /\ opPending' = pending
         /\ opResult' = "none"
    ELSE /\ opPc' = "settled"
         /\ opPending' = "none"
         /\ opResult' = pending

\* install's finally block: tryRemoveFolder(tempFolder) is called and
\* awaited when tempFolder is defined; then install settles as pending says
InstallFinally(pending) ==
    IF tempFolder'
    THEN /\ opPc' = "removeTemp"
         /\ opPending' = pending
         /\ opResult' = "none"
    ELSE /\ opPc' = "settled"
         /\ opPending' = "none"
         /\ opResult' = pending

\* makeTemporaryToolkitFolder resolves: downloadAndExtractServer is called
MakeTempResolve ==
    /\ opPc = "makeTemp"
    /\ fsTemp' = TRUE
    /\ tempFolder' = TRUE
    /\ opEffects' = opEffects \cup {"makeTemp"}
    /\ opPc' = "download"
    /\ UNCHANGED <<fsServer, fsNode, opName, opManifest, opPending, opResult,
                   fsBefore, prevOp, prevResult, prevBefore>>
    /\ UNCHANGED <<controllerVars, queryVars, inlineVars, stackVars>>

\* makeTemporaryToolkitFolder rejects: no folder, tempFolder stays undefined
MakeTempReject ==
    /\ opPc = "makeTemp"
    /\ UNCHANGED tempFolder
    /\ InstallFinally("threw")
    /\ UNCHANGED <<fsVars, opName, opManifest, opEffects, fsBefore, prevOp, prevResult,
                   prevBefore>>
    /\ UNCHANGED <<controllerVars, queryVars, inlineVars, stackVars>>

\* downloadAndExtractServer resolves: the server is in place and
\* installRuntime is called
DownloadResolve ==
    /\ opPc = "download"
    /\ fsServer' = TRUE
    /\ opEffects' = opEffects \cup {"download"}
    /\ opPc' = "runtime"
    /\ UNCHANGED <<fsNode, fsTemp, opName, opManifest, tempFolder, opPending, opResult,
                   fsBefore, prevOp, prevResult, prevBefore>>
    /\ UNCHANGED <<controllerVars, queryVars, inlineVars, stackVars>>

\* downloadAndExtractServer rejects: the server path is as it was
DownloadReject ==
    /\ opPc = "download"
    /\ UNCHANGED tempFolder
    /\ InstallFinally("threw")
    /\ UNCHANGED <<fsVars, opName, opManifest, opEffects, fsBefore, prevOp, prevResult,
                   prevBefore>>
    /\ UNCHANGED <<controllerVars, queryVars, inlineVars, stackVars>>

\* installRuntime resolves: the runtime binary is in place
RuntimeResolve ==
    /\ opPc = "runtime"
    /\ fsNode' = TRUE
    /\ opEffects' = opEffects \cup {"installRuntime"}
    /\ UNCHANGED tempFolder
    /\ InstallFinally("true")
    /\ UNCHANGED <<fsServer, fsTemp, opName, opManifest, fsBefore, prevOp, prevResult,
                   prevBefore>>
    /\ UNCHANGED <<controllerVars, queryVars, inlineVars, stackVars>>

\* installRuntime rejects: the runtime path is as it was
RuntimeReject ==
    /\ opPc = "runtime"
    /\ UNCHANGED tempFolder
    /\ InstallFinally("threw")
    /\ UNCHANGED <<fsVars, opName, opManifest, opEffects, fsBefore, prevOp, prevResult,
                   prevBefore>>
    /\ UNCHANGED <<controllerVars, queryVars, inlineVars, stackVars>>

\* (a finally block that removes the server path, not the temporary folder)
RemoveTempDoneServerPath ==
    /\ opPc = "removeTemp"
    /\ fsServer' = FALSE
    /\ opEffects' = opEffects \cup {"removeServer"}
    /\ opPc' = "settled"
    /\ opResult' = opPending
    /\ opPending' = "none"
    /\ UNCHANGED <<fsNode, fsTemp, opName, opManifest, tempFolder, fsBefore, prevOp,
                   prevResult, prevBefore>>
    /\ UNCHANGED <<controllerVars, queryVars, inlineVars, stackVars>>

\* tryRemoveFolder(tempFolder) resolves: the folder is gone, install settles
RemoveTempDone ==
    /\ opPc = "removeTemp"
    /\ fsTemp' = FALSE
    /\ opEffects' = opEffects \cup {"removeTemp"}
    /\ opPc' = "settled"
    /\ opResult' = opPending
    /\ opPending' = "none"
    /\ UNCHANGED <<fsServer, fsNode, opName, opManifest, tempFolder, fsBefore, prevOp,
                   prevResult, prevBefore>>
    /\ UNCHANGED <<controllerVars, queryVars, inlineVars, stackVars>>

\* cleanup() up to its first await: fs.exists(this.serverPath) is called
Cleanup ==
    /\ OpCall("cleanup")
    /\ opPc' = "cleanServer"
    /\ opResult' = "none"
    /\ opManifest' = None
    /\ UNCHANGED <<fsVars, tempFolder, opPending>>
    /\ UNCHANGED <<controllerVars, queryVars, inlineVars, stackVars>>

\* (a cleanup that leaves the server directory where it is)
ServerAfterCleanupKept == fsServer

\* the server directory, when there, is removed with tryRemoveFolder
ServerAfterCleanup == FALSE

\* the first half of cleanup; fs.exists(this.nodePath) is called
CleanupServer ==
    /\ opPc = "cleanServer"
    /\ fsServer' = ServerAfterCleanup
    /\ opEffects' = IF fsServer THEN opEffects \cup {"removeServer"} ELSE opEffects
    /\ opPc' = "cleanNode"
    /\ UNCHANGED <<fsNode, fsTemp, opName, opManifest, tempFolder, opPending, opResult,
                   fsBefore, prevOp, prevResult, prevBefore>>
    /\ UNCHANGED <<controllerVars, queryVars, inlineVars, stackVars>>

\* (a cleanup that leaves the runtime binary where it is)
NodeAfterCleanupKept == fsNode

\* the runtime binary, when there, is deleted with fs.delete
NodeAfterCleanup == FALSE

\* the second half of cleanup, which returns true
CleanupNode ==
    /\ opPc = "cleanNode"
    /\ fsNode' = NodeAfterCleanup
    /\ opEffects' = IF fsNode THEN opEffects \cup {"deleteNode"} ELSE opEffects
    /\ opPc' = "settled"
    /\ opResult' = "true"
    /\ UNCHANGED <<fsServer, fsTemp, opName, opManifest, tempFolder, opPending,
                   fsBefore, prevOp, prevResult, prevBefore>>
    /\ UNCHANGED <<controllerVars, queryVars, inlineVars, stackVars>>

\* isLspInstalled(): both paths exist
IsLspInstalled ==
    /\ OpCall("isLspInstalled")
    /\ opPc' = "settled"
    /\ opResult' = IF fsServer /\ fsNode THEN "true" ELSE "false"
    /\ opManifest' = None
    /\ UNCHANGED <<fsVars, tempFolder, opPending>>
    /\ UNCHANGED <<controllerVars, queryVars, inlineVars, stackVars>>

\* ------------------------------- DefaultCloudFormationClient.listStacks

\* (a loop that never goes round again)
WhileConditionNever(token) == FALSE

\* while (request.NextToken)
WhileCondition(token) == IsDefined(token)

\* the responses the service may give to the request in hand: its last
\* page, at the latest the MaxPages-th, carries no NextToken
ServiceResponses ==
    IF Len(lsRequests) < MaxPages
    THEN ListStacksOutputs
    ELSE {r \in ListStacksOutputs : r.NextToken = None}

\* the end of the loop body: request.NextToken = response.NextToken, then
\* the loop test; the next client.listStacks(request) or the generator's end
EndOfLoopBody(response) ==
    /\ lsToken' = response.NextToken
    /\ IF WhileCondition(lsToken')
       THEN /\ lsRequests' = Append(lsRequests, lsToken')
            /\ lsPc' = "request"
       ELSE /\ lsPc' = "done"
            /\ UNCHANGED lsRequests

\* the consumer's first next(): the generator starts, createSdkClient() is
\* called
ListStacks ==
    /\ lsPc = "idle"
    /\ lsPc' = "client"
    /\ UNCHANGED <<lsToken, lsRequests, lsResponses, lsPending, lsYielded>>
    /\ UNCHANGED <<controllerVars, queryVars, inlineVars, installVars>>

\* createSdkClient resolves: the request is built without a NextToken and
\* the loop body is entered, client.listStacks(request) is called
CreateSdkClientResolve ==
    /\ lsPc = "client"
    /\ lsToken' = None
    /\ lsRequests' = <<None>>
    /\ lsPc' = "request"
    /\ UNCHANGED <<lsResponses, lsPending, lsYielded>>
    /\ UNCHANGED <<controllerVars, queryVars, inlineVars, installVars>>

\* createSdkClient rejects: the generator throws before any request
CreateSdkClientReject ==
    /\ lsPc = "client"
    /\ lsPc' = "threw"
    /\ UNCHANGED <<lsToken, lsRequests, lsResponses, lsPending, lsYielded>>
    /\ UNCHANGED <<controllerVars, queryVars, inlineVars, installVars>>

\* client.listStacks(request).promise() resolves: with summaries, yield*
\* gives the first one to the consumer and the generator is suspended;
\* without (undefined, or an empty list) the loop body runs to its end
ListStacksResolve ==
    /\ lsPc = "request"
    /\ \E response \in ServiceResponses :
        /\ lsResponses' = Append(lsResponses, response)
        /\ IF IsDefined(response.StackSummaries) /\ response.StackSummaries[1] # <<>>
           THEN /\ lsYielded' = Append(lsYielded, Head(response.StackSummaries[1]))
                /\ lsPending' = Tail(response.StackSummaries[1])
                /\ lsPc' = "yield"
                /\ UNCHANGED <<lsToken, lsRequests>>
           ELSE /\ EndOfLoopBody(response)
                /\ UNCHANGED <<lsPending, lsYielded>>
    /\ UNCHANGED <<controllerVars, queryVars, inlineVars, installVars>>

\* client.listStacks(request).promise() rejects: the generator throws
ListStacksReject ==
    /\ lsPc = "request"
    /\ lsPc' = "threw"
    /\ UNCHANGED <<lsToken, lsRequests, lsResponses, lsPending, lsYielded>>
    /\ UNCHANGED <<controllerVars, queryVars, inlineVars, installVars>>

\* the consumer's next() while the generator is suspended in yield*: the
\* next summary of the page, or after the last one the end of the loop body
ConsumerNext ==
    /\ lsPc = "yield"
    /\ IF lsPending # <<>>
       THEN /\ lsYielded' = Append(lsYielded, Head(lsPending))
            /\ lsPending' = Tail(lsPending)
            /\ UNCHANGED <<lsPc, lsToken, lsRequests>>
       ELSE /\ EndOfLoopBody(lsResponses[Len(lsResponses)])
            /\ UNCHANGED <<lsPending, lsYielded>>
    /\ UNCHANGED lsResponses
    /\ UNCHANGED <<controllerVars, queryVars, inlineVars, installVars>>

\* no listing in hand
InitStacks ==
    /\ lsPc = "idle"
    /\ lsToken = None
    /\ lsRequests = <<>>
    /\ lsResponses = <<>>
    /\ lsPending = <<>>
    /\ lsYielded = <<>>

\* ----------------------------------------------------------- controller

InitController ==
    /\ _isIndexingInProgress = FALSE
    /\ workspaceFolders \in WorkspaceChoices
    /\ bpc = [i \in Invocations |-> "idle"]
    /\ bconfig = [i \in Invocations |-> None]
    /\ bfiles = [i \in Invocations |-> None]
    /\ bcall = [i \in Invocations |-> None]
    /\ bevents = [i \in Invocations |-> <<>>]
    /\ isCloud9 \in BOOLEAN
    /\ isWeb \in BOOLEAN
    /\ isAmazonInternalOs \in BOOLEAN
    /\ setupPc = "notCalled"
    /\ setupConfig = None
    /\ setupTrace = <<>>
    /\ timerArmed = FALSE
    /\ pollPc = "idle"
    /\ lastPoll = "none"

InitQueries ==
    /\ qpc = "idle"
    /\ qNotReady = FALSE
    /\ qChild = FALSE
    /\ qresponse = None
    /\ qresult = <<>>
    /\ ipc = "idle"
    /\ iChild = FALSE
    /\ iresponse = None
    /\ iresult = None
    /\ ilog = <<>>

\* no operation on the installation in hand
InitOp ==
    /\ fsTemp = FALSE
    /\ opPc = "idle"
    /\ opName = "none"
    /\ opManifest = None
    /\ tempFolder = FALSE
    /\ opPending = "none"
    /\ opResult = "none"
    /\ opEffects = {}
    /\ fsBefore = <<FALSE, FALSE, FALSE>>
    /\ prevOp = "none"
    /\ prevResult = "none"
    /\ prevBefore = <<FALSE, FALSE, FALSE>>

\* the controller after construction; the disk is not followed here
Init ==
    /\ InitController
    /\ InitQueries
    /\ InitOp
    /\ InitStacks
    /\ fsServer = FALSE
    /\ fsNode = FALSE

Next ==
    \/ \E i \in Invocations :
        \/ BuildIndex(i)
        \/ CollectResolve(i)
        \/ CollectReject(i)
        \/ BuildResolve(i)
        \/ BuildReject(i)
        \/ UsageResolve(i)
        \/ UsageReject(i)
        \/ SnapshotResolve(i)
        \/ SnapshotReject(i)
        \/ BuildIndexSettled(i)
    \/ TrySetupLsp
    \/ SetupTaskRun
    \/ TryInstallResolve
    \/ ActivateResolve
    \/ ActivateReject
    \/ TimerTick
    \/ PollResolve
    \/ PollReject

Spec == Init /\ [][Next]_vars

\* The queries against the controller's life cycle: trySetupLsp's task with
\* its first build, and callers of query and queryInlineProjectContext.
NextQuery ==
    \/ CollectResolve(SetupInvocation)
    \/ CollectReject(SetupInvocation)
    \/ BuildResolve(SetupInvocation)
    \/ BuildReject(SetupInvocation)
    \/ UsageResolve(SetupInvocation)
    \/ UsageReject(SetupInvocation)
    \/ SnapshotResolve(SetupInvocation)
    \/ SnapshotReject(SetupInvocation)
    \/ TrySetupLsp
    \/ SetupTaskRun
    \/ TryInstallResolve
    \/ ActivateResolve
    \/ ActivateReject
    \/ Query
    \/ QueryClientResolve
    \/ QueryClientReject
    \/ QuerySettled
    \/ QueryInlineProjectContext
    \/ InlineClientResolve
    \/ InlineClientReject
    \/ InlineSettled

SpecQuery == Init /\ [][NextQuery]_vars

\* The installation on disk under any sequence of install, cleanup and
\* isLspInstalled, each called when the one before has settled; the disk
\* starts with any of the server directory and the runtime binary in place.
InitInstall ==
    /\ InitController
    /\ workspaceFolders = <<>>
    /\ ~isCloud9 /\ ~isWeb /\ ~isAmazonInternalOs
    /\ InitQueries
    /\ InitOp
    /\ InitStacks
    /\ fsServer \in BOOLEAN
    /\ fsNode \in BOOLEAN

NextInstall ==
    \/ Install
    \/ MakeTempResolve
    \/ MakeTempReject
    \/ DownloadResolve
    \/ DownloadReject
    \/ RuntimeResolve
    \/ RuntimeReject
    \/ RemoveTempDone
    \/ Cleanup
    \/ CleanupServer
    \/ CleanupNode
    \/ IsLspInstalled

SpecInstall == InitInstall /\ [][NextInstall]_vars

\* query over every answer the client may give, on a controller that is
\* Ready: trySetupLsp's task has run to its end on a workspace without
\* folders (the state Spec reaches by TrySetupLsp, SetupTaskRun,
\* TryInstallResolve, ActivateResolve).
InitReady ==
    /\ _isIndexingInProgress = FALSE
    /\ workspaceFolders = <<>>
    /\ bpc = [i \in Invocations |-> IF i = SetupInvocation THEN "resolved" ELSE "idle"]
    /\ bconfig = [i \in Invocations |-> None]
    /\ bfiles = [i \in Invocations |-> None]
    /\ bcall = [i \in Invocations |-> None]
    /\ bevents = [i \in Invocations |-> <<>>]
    /\ isCloud9 = FALSE
    /\ isWeb = FALSE
    /\ isAmazonInternalOs = FALSE
    /\ setupPc = "returned"
    /\ setupConfig \in {Some(config) : config \in BuildIndexConfigs}
    /\ setupTrace = <<"returned", "install_begin", "install_end", "activate_begin">>
                        \o StepsAfterActivation(TRUE)
    /\ timerArmed = TRUE
    /\ pollPc = "idle"
    /\ lastPoll = "none"
    /\ InitQueries
    /\ InitOp
    /\ InitStacks
    /\ fsServer = FALSE
    /\ fsNode = FALSE

NextChunks ==
    \/ Query
    \/ QueryClientResolveChunks
    \/ QuerySettled

SpecChunks == InitReady /\ [][NextChunks]_vars

\* One iteration of listStacks() by a consumer that takes every summary,
\* against a service that gives any pages.
InitListStacks ==
    /\ InitController
    /\ workspaceFolders = <<>>
    /\ ~isCloud9 /\ ~isWeb /\ ~isAmazonInternalOs
    /\ InitQueries
    /\ InitOp
    /\ InitStacks
    /\ fsServer = FALSE
    /\ fsNode = FALSE

NextListStacks ==
    \/ ListStacks
    \/ CreateSdkClientResolve
    \/ CreateSdkClientReject
    \/ ListStacksResolve
    \/ ListStacksReject
    \/ ConsumerNext

SpecListStacks == InitListStacks /\ [][NextListStacks]_vars

\* ================================================================ claims

InTry(i) == bpc[i] \in {"collecting", "building", "usage"}

\* C1: the flag is never left stuck at true.  Whenever isIndexingInProgress()
\* reads true, some buildIndex invocation is still inside its try block; so
\* once every invocation has reached its finally block (whether its collector
\* threw, its build returned true or false or rejected, its usage query
\* rejected or its snapshot retrieval rejected) the flag reads false.
C1_FlagNeverStuck ==
    _isIndexingInProgress => \E i \in Invocations : InTry(i)

\* an invocation whose try block threw and whose snapshot retrieval then
\* rejected has finished, and the flag reads false
C1_Witness ==
    /\ ~_isIndexingInProgress
    /\ \E i \in Invocations :
        /\ bpc[i] = "rejected"
        /\ bevents[i] # <<>>
        /\ IsDefined(bevents[i][1].reasonDesc)

\* C2: only one indexing build runs at a time: never are two invocations
\* both between the start of file collection and the completion of their
\* child-process build call.
C2_OneBuildAtATime ==
    Cardinality({i \in Invocations : bpc[i] \in {"collecting", "building"}}) <= 1

\* each step of the list that has happened was preceded by the step before it
StepsInOrder(steps) ==
    \A k \in 2 .. Len(steps) :
        InTrace(steps[k]) => InTrace(steps[k - 1]) /\ Pos(steps[k - 1]) < Pos(steps[k])

\* C3 (as stated): install, activation, the first index build and the
\* arming of the usage monitor are strictly ordered, no step beginning
\* before the prior one has completed: the timer is armed only after the
\* first buildIndex invocation has finished.
C3_TimerAfterFirstBuildFinished ==
    StepsInOrder(<<"install_begin", "install_end", "activate_begin", "activate_end",
                   "build_begin", "build_end", "timer_armed">>)

\* C3 (amended): install completes before activation begins, activation
\* completes before the first buildIndex is invoked, and the timer is armed
\* after that invocation has been made, without waiting for it: on a
\* workspace with folders the first build finishes only after the timer
\* was armed.
C3_SetupOrder ==
    /\ StepsInOrder(<<"install_begin", "install_end", "activate_begin", "activate_end",
                      "build_begin", "timer_armed">>)
    /\ (Len(workspaceFolders) > 0 /\ InTrace("build_end"))
           => InTrace("timer_armed") /\ Pos("timer_armed") < Pos("build_end")

\* the task ran to the end on a workspace with folders, and the first build
\* has finished
C3_Witness ==
    /\ Len(workspaceFolders) > 0
    /\ InTrace("timer_armed")
    /\ InTrace("build_end")

\* C4: a query issued before the controller is Ready resolves to an empty
\* sequence and never rejects.
C4_QueryBeforeReadyIsEmpty ==
    (qNotReady /\ qpc \in {"resolved", "rejected"})
        => (qpc = "resolved" /\ qresult = <<>>)

\* C5: when LspClient.queryVectorIndex rejects, query resolves to an empty
\* result and the rejection does not reach query's caller.
C5_QueryRejectionAbsorbed ==
    (IsDefined(qresponse) /\ qresponse[1].settled = "rejected")
        => (qpc = "resolved" /\ qresult = <<>>)

\* C6: the promise returned by buildIndex resolves rather than rejects,
\* whichever of the collector and the child-process calls fails.
C6_BuildIndexNeverRejects ==
    \A i \in Invocations : bpc[i] # "rejected"

\* C7: queryInlineProjectContext returns the client's result unchanged
\* when the client call succeeds; when it fails, whatever was thrown, it
\* returns an empty sequence and logs the error.
C7_InlineFailureLoggedAndEmpty ==
    ipc = "returned" =>
        IF iresponse[1].settled = "rejected"
        THEN iresult = Some(<<>>) /\ ilog # <<>>
        ELSE iresult = iresponse[1].value

MissingDependency(manifest) ==
    ~IsDefined(GetDependency(manifest, "qserver")) \/ ~IsDefined(GetDependency(manifest, "node"))

NothingOnDisk == <<FALSE, FALSE, FALSE>>

\* C8: for a manifest without the 'qserver' entry or without the 'node'
\* entry for the current platform, install returns false and has touched
\* nothing: no temporary folder made, nothing downloaded, and the server
\* path, the runtime path and the temporary folders on disk as before.
C8_MissingDependencyNoEffect ==
    (opName = "install" /\ opPc = "settled" /\ MissingDependency(opManifest[1]))
        => (opResult = "false" /\ opEffects = {} /\ Disk = fsBefore)

\* install has returned for a manifest that has the server's entry for this
\* platform and the runtime's only for another one
C8_Witness ==
    /\ opName = "install"
    /\ opPc = "settled"
    /\ IsDefined(GetDependency(opManifest[1], "qserver"))
    /\ ~IsDefined(GetDependency(opManifest[1], "node"))
    /\ \E e \in opManifest[1] : e.name = "node"

\* C9: no temporary folder made by install outlives the call: a temporary
\* folder is on disk only while an install is between making it and the
\* end of its finally block, so once install has settled, by returning or by
\* throwing, the folder it made is gone.
C9_TempFolderRemoved ==
    fsTemp => (opName = "install" /\ opPc \in {"download", "runtime", "removeTemp"})

\* an install that made its temporary folder has thrown, and the folder is
\* gone
C9_Witness ==
    /\ opName = "install"
    /\ opPc = "settled"
    /\ opResult = "threw"
    /\ "makeTemp" \in opEffects
    /\ ~fsTemp

\* C10 (as stated): install followed by cleanup leaves the disk (server
\* directory, runtime binary, temporary folder) as it was before install,
\* whatever was installed before.
C10_InstallCleanupRestores ==
    (opName = "cleanup" /\ opPc = "settled" /\ prevOp = "install")
        => Disk = prevBefore

\* C10 (amended): install followed by cleanup leaves the disk as it was
\* before install when neither the server directory nor the runtime binary
\* was there before install.
C10_InstallCleanupFromNothing ==
    (opName = "cleanup" /\ opPc = "settled" /\ prevOp = "install"
        /\ prevBefore = NothingOnDisk)
        => Disk = prevBefore

\* a cleanup has returned after an install that put server and runtime on
\* an empty disk
C10_Witness ==
    /\ opName = "cleanup"
    /\ opPc = "settled"
    /\ prevOp = "install"
    /\ prevResult = "true"
    /\ prevBefore = NothingOnDisk

\* C11: cleanup is idempotent.  From any installation state (both paths
\* there, one of them, none) it returns true and leaves neither the server
\* directory nor the runtime binary; a cleanup called right after a cleanup
\* removes nothing and leaves the disk as it found it.
C11_CleanupIdempotent ==
    (opName = "cleanup" /\ opPc = "settled")
        => /\ opResult = "true"
           /\ ~fsServer
           /\ ~fsNode
           /\ prevOp = "cleanup" => (opEffects = {} /\ Disk = fsBefore)

\* a second cleanup has returned right after one that was called with both
\* the server directory and the runtime binary in place
C11_Witness ==
    /\ opName = "cleanup"
    /\ opPc = "settled"
    /\ prevOp = "cleanup"
    /\ prevResult = "true"
    /\ prevBefore = <<TRUE, TRUE, FALSE>>

\* C12: on a host where any of the three predicates holds (Cloud9, web,
\* Amazon internal OS) trySetupLsp does nothing: no task is scheduled, and
\* no install, no activation, no index build of its own and no usage
\* monitor timer ever comes of the call.
C12_IncompatibleHostSkips ==
    (isCloud9 \/ isWeb \/ isAmazonInternalOs)
        => /\ setupPc \in {"notCalled", "skipped"}
           /\ setupTrace \in {<<>>, <<"returned">>}
           /\ bpc[SetupInvocation] = "idle"
           /\ bevents[SetupInvocation] = <<>>
           /\ ~timerArmed
           /\ pollPc = "idle"

\* trySetupLsp has returned on the Amazon internal OS
C12_Witness ==
    /\ isAmazonInternalOs
    /\ ~isCloud9
    /\ ~isWeb
    /\ setupPc = "skipped"
    /\ setupTrace = <<"returned">>

\* the try block of the invocation has been left: the finally block is
\* awaiting the snapshot, or buildIndex has settled
PastTry(i) == bpc[i] \in {"snapshot", "resolved", "rejected"}

\* C13: every build attempt on a workspace with folders emits exactly one
\* amazonq_indexWorkspace event, on every path (the child build returns
\* true, returns false, or a step throws): none while the try block runs,
\* one and only one from the moment the try block is left.
C13_ExactlyOneEvent ==
    Len(workspaceFolders) > 0 =>
        \A i \in Invocations :
            /\ (bpc[i] = "idle" \/ InTry(i)) => bevents[i] = <<>>
            /\ PastTry(i) => Len(bevents[i]) = 1

\* one attempt has ended with its event after a throw, another one after
\* the child build returned true
C13_Witness ==
    /\ Len(workspaceFolders) > 0
    /\ \E i, j \in Invocations :
        /\ PastTry(i)
        /\ PastTry(j)
        /\ Len(bevents[i]) = 1
        /\ Len(bevents[j]) = 1
        /\ IsDefined(bevents[i][1].reasonDesc)
        /\ bevents[j][1].result = "Succeeded"

\* C14: whenever the child-process build call of an invocation returned
\* true (the invocation went on to the usage query), the event recorded for
\* that invocation has result Succeeded, with the number of collected files
\* and their total size in MB.
C14_BuildSuccessRecorded ==
    [][\A i \in Invocations :
          (bpc[i] = "usage" /\ bpc'[i] # "usage")
              => /\ Len(bevents'[i]) = 1
                 /\ bevents'[i][1].result = "Succeeded"
                 /\ bevents'[i][1].amazonqIndexFileCount = Len(bfiles[i][1])
                 /\ bevents'[i][1].amazonqIndexFileSizeInMB
                        = TotalSizeBytes(bfiles[i][1]) \div MiB]_vars

\* C15: every event with result Failed carries a reason code and a
\* description, whether the failure was a thrown error or a false return of
\* the child build call.
C15_FailedEventDescribed ==
    \A i \in Invocations :
        \A k \in 1 .. Len(bevents[i]) :
            bevents[i][k].result = "Failed"
                => (IsDefined(bevents[i][k].reason) /\ IsDefined(bevents[i][k].reasonDesc))

\* C16: with no folders in the workspace buildIndex is a no-op: the call
\* returns at once, the collector is not invoked, no child-process call is
\* made, no event is emitted and the flag is left as it was.
C16_EmptyWorkspaceNoOp ==
    [][\A i \in Invocations :
          (Len(workspaceFolders) = 0 /\ bpc[i] = "idle" /\ bpc'[i] # "idle")
              => /\ bpc'[i] = "resolved"
                 /\ UNCHANGED <<_isIndexingInProgress, bconfig, bfiles, bcall, bevents>>]_vars

\* on a workspace without folders both trySetupLsp's task and another
\* caller have invoked buildIndex, and both calls have returned
C16_Witness ==
    /\ Len(workspaceFolders) = 0
    /\ bpc[SetupInvocation] = "resolved"
    /\ \E i \in Callers : bpc[i] = "resolved"
    /\ ~_isIndexingInProgress

\* b is the part of the path p after its last separator
IsBasenameOf(b, p) ==
    \E k \in 0 .. Len(p) :
        /\ b = SubSeq(p, k + 1, Len(p))
        /\ k = 0 \/ p[k] = 47
        /\ \A j \in 1 .. Len(b) : b[j] # 47

\* C17: query maps the chunks the client returned one-to-one and in order
\* to normalized records: text is the chunk's context when there is one
\* (a non-empty one), else its content; relativeFilePath is the chunk's
\* relativePath when one was supplied, else the basename of filePath; a
\* language tag is attached exactly when programmingLanguage is there and
\* is not "unknown", and it names that language.
C17_QueryNormalizes ==
    (qpc = "resolved" /\ IsDefined(qresponse) /\ IsDefined(qresponse[1].chunks))
        => LET chunks == qresponse[1].chunks[1]
           IN  /\ Len(qresult) = Len(chunks)
               /\ \A k \in 1 .. Len(chunks) :
                    LET c == chunks[k]
                        r == qresult[k]
                    IN  /\ r.text = IF Truthy(c.context) THEN c.context[1] ELSE c.content
                        /\ IF TruthyPath(c.relativePath)
                           THEN r.relativeFilePath = c.relativePath[1]
                           ELSE IsBasenameOf(r.relativeFilePath, c.filePath)
                        /\ IsDefined(r.programmingLanguage)
                               <=> (Truthy(c.programmingLanguage)
                                       /\ c.programmingLanguage[1] # "unknown")
                        /\ IsDefined(r.programmingLanguage)
                               => r.programmingLanguage[1].languageName
                                      = c.programmingLanguage[1]

\* query has resolved for an answer of two chunks: the first with a
\* context, no relative path and the language "unknown" (it comes out with
\* the context as text, "y.py" as path and no tag), the second with no
\* context, a relative path and the language "python"
C17_Witness ==
    /\ qpc = "resolved"
    /\ IsDefined(qresponse)
    /\ IsDefined(qresponse[1].chunks)
    /\ LET chunks == qresponse[1].chunks[1]
       IN  /\ Len(chunks) = 2
           /\ chunks[1].context = Some("CTX")
           /\ chunks[1].relativePath = None
           /\ chunks[1].programmingLanguage = Some("unknown")
           /\ chunks[2].context = None
           /\ chunks[2].relativePath = Some(PathRel)
           /\ chunks[2].programmingLanguage = Some("python")
    /\ qresult[1].text = "CTX"
    /\ qresult[1].relativeFilePath = <<121, 46, 112, 121>>
    /\ qresult[1].programmingLanguage = None
    /\ qresult[2].text = "RAW"

\* the folders of the workspace, as a set
FolderSet == {workspaceFolders[k] : k \in 1 .. Len(workspaceFolders)}

\* C18: the project root passed to the child build call is the first of
\* the sorted workspace folder paths: the least folder path of the set, so
\* the same for every order in which the host lists the same folders.
C18_ProjRootIsLeastFolder ==
    \A i \in Invocations :
        bpc[i] = "building"
            => /\ bcall[i][1].projRoot \in FolderSet
               /\ \A f \in FolderSet : ~StrLess(f, bcall[i][1].projRoot)

\* the host lists "/b" before "/a", and a child build call is pending with
\* project root "/a"
C18_Witness ==
    /\ workspaceFolders = <<PathB, PathA>>
    /\ \E i \in Invocations :
        /\ bpc[i] = "building"
        /\ bcall[i][1].projRoot = PathA

\* the part of the life cycle the controller can tell from the disk, as
\* isLspInstalled() tells it: 1 for Installed, 0 for NotInstalled
InstalledRank == IF fsServer /\ fsNode THEN 1 ELSE 0

C20_SetupDoesNotBlock ==
    (~(isCloud9 \/ isWeb \/ isAmazonInternalOs) /\ setupPc # "notCalled")
        => /\ setupTrace[1] = "returned"
           /\ \A k \in 2 .. Len(setupTrace) : setupTrace[k] # "returned"
           /\ setupPc = "scheduled"
                  => /\ setupTrace = <<"returned">>
                     /\ bpc[SetupInvocation] = "idle"
                     /\ ~timerArmed

\* the deferred task has started the installation after trySetupLsp returned
C20_Witness ==
    /\ ~(isCloud9 \/ isWeb \/ isAmazonInternalOs)
    /\ setupPc = "installing"
    /\ setupTrace = <<"returned", "install_begin">>

\* C21: once the usage monitor is armed it is never cancelled, so the poll
\* of getLspServerUsage recurs with every interval; and no poll, whether
\* it fails or gets no sample, lets an error out of the poll task (the
\* callback's promise never rejects).
C21_PollingNeverFailsOrStops ==
    [][/\ timerArmed => timerArmed'
       /\ lastPoll' # "rejected"]_vars

\* C22: the flag reads true for the whole duration of every build: in any
\* interleaving of invocations, whenever some invocation is between the
\* start of its file collection and the completion of its child-process
\* build call, isIndexingInProgress() is true.
C22_FlagTrueDuringBuild ==
    (\E i \in Invocations : bpc[i] \in {"collecting", "building"})
        => _isIndexingInProgress

\* C23: within one invocation the collection has completed before the
\* child-process build call is issued, the call is given exactly the paths
\* of the collected files, in their order, and getRepoMapJSON is issued
\* only when the flag has been cleared, after a success and after a
\* failure alike.
C23_OrderWithinBuildIndex ==
    [][\A i \in Invocations :
          /\ (bpc[i] # "building" /\ bpc'[i] = "building")
                 => /\ bpc[i] = "collecting"
                    /\ IsDefined(bfiles'[i])
                    /\ IsDefined(bcall'[i])
                    /\ Len(bcall'[i][1].filePaths) = Len(bfiles'[i][1])
                    /\ \A k \in 1 .. Len(bfiles'[i][1]) :
                           bcall'[i][1].filePaths[k] = bfiles'[i][1][k].fsPath
          /\ (bpc[i] # "snapshot" /\ bpc'[i] = "snapshot")
                 => ~_isIndexingInProgress']_vars

\* one invocation has its child build call pending with the paths of two
\* collected files, another one has failed and awaits the snapshot
C23_Witness ==
    \E i, j \in Invocations :
        /\ bpc[i] = "building"
        /\ Len(bcall[i][1].filePaths) = 2
        /\ bpc[j] = "snapshot"
        /\ bevents[j][1].result = "Failed"

\* C24: in trySetupLsp's task a failed install leads to no activation, no
\* index build and no timer; a failed activation is caught and logged and
\* leads to no index build and no timer.
C24_FailedSetupStops ==
    /\ InTrace("install_failed")
           => /\ ~InTrace("activate_begin")
              /\ ~InTrace("build_begin")
              /\ bpc[SetupInvocation] = "idle"
              /\ ~timerArmed
              /\ setupPc = "returned"
    /\ InTrace("activate_failed")
           => /\ InTrace("logged")
              /\ ~InTrace("build_begin")
              /\ bpc[SetupInvocation] = "idle"
              /\ ~timerArmed
              /\ setupPc = "returned"

\* activation has failed in the task, after a successful install
C24_Witness ==
    /\ InTrace("install_end")
    /\ InTrace("activate_failed")
    /\ setupPc = "returned"

\* the summaries of the pages, page after page; a page without summaries
\* adds nothing
RECURSIVE SummariesOf(_)
SummariesOf(responses) ==
    IF responses = <<>> THEN <<>>
    ELSE (IF IsDefined(Head(responses).StackSummaries)
          THEN Head(responses).StackSummaries[1]
          ELSE <<>>) \o SummariesOf(Tail(responses))

\* C25: listStacks issues at least one list request; the first request
\* carries no NextToken and each later one the NextToken of the response
\* before it; the summaries of every page are yielded in page order; and
\* the iteration ends exactly after the first response without a
\* NextToken: no request follows such a response, a response with a
\* NextToken is followed by a request even when it has no summaries, and
\* the generator is done only when the last response had no NextToken and
\* all its summaries were yielded.
C25_ListStacksPagination ==
    /\ lsPc \in {"request", "yield", "done"} => Len(lsRequests) >= 1
    /\ \A k \in 1 .. Len(lsRequests) :
           IF k = 1
           THEN lsRequests[k] = None
           ELSE /\ k - 1 <= Len(lsResponses)
                /\ IsDefined(lsResponses[k - 1].NextToken)
                /\ lsRequests[k] = lsResponses[k - 1].NextToken
    /\ lsYielded \o lsPending = SummariesOf(lsResponses)
    /\ lsPc = "request" => Len(lsRequests) = Len(lsResponses) + 1
    /\ lsPc \in {"yield", "done"} => Len(lsRequests) = Len(lsResponses)
    /\ lsPc = "done"
           => /\ lsResponses[Len(lsResponses)].NextToken = None
              /\ lsPending = <<>>
              /\ lsYielded = SummariesOf(lsResponses)

\* a listing of three pages has ended: the first page with two summaries,
\* the second without any but with a NextToken, the third the last one
C25_Witness ==
    /\ lsPc = "done"
    /\ Len(lsResponses) = 3
    /\ lsResponses[1].StackSummaries = Some(<<"s1", "s2">>)
    /\ lsResponses[2].StackSummaries = None
    /\ lsResponses[1].NextToken # lsResponses[2].NextToken
    /\ lsResponses[3].StackSummaries = Some(<<"s1">>)
    /\ lsYielded = <<"s1", "s2", "s1">>

====
